---- MODULE Spec2Model ----
(***************************************************************************)
(* Model of the host-native OCI builder (pkg/oci/builder.go and            *)
(* pkg/oci/go_builder.go): the build-job lifecycle on one project root,    *)
(* the workspace under <root>/.func (builds/by-hash, builds/by-pid,        *)
(* builds/last, blob-cache) and the content-addressed layout written by    *)
(* containerize.  Several OS processes run Build on the same root; every   *)
(* filesystem call of Build is one step of the process that makes it.      *)
(***************************************************************************)
EXTENDS Integers, Sequences, FiniteSets, TLC

(***************************************************************************)
(* Bounds of the model.                                                    *)
(***************************************************************************)
\* builds started in one behaviour, over all processes
MaxBuilds == 3
\* platforms requested of one build
MaxPlatforms == 2
\* pieces a base layer's compressed stream is copied in
Chunks == 2
\* environment events (an I/O call or a subprocess failing, a process killed,
\* a context cancelled) in one behaviour
MaxFaults == 1

\* the OS processes that build on the project root, by PID
Pids == {1, 2}
\* the fingerprints the project tree takes
\* in the order os.ReadDir lists them (sorted by name)
HashOrder == <<"h1", "h2">>
Hashes == {HashOrder[i] : i \in 1..Len(HashOrder)}

NoLink == <<"<none>">>
NoDir == [present |-> FALSE]
NoFile == [present |-> FALSE, got |-> {}]
NoIndex == [present |-> FALSE, manifests |-> <<>>]

(***************************************************************************)
(* Paths are sequences of components below <root>/.func (fn.RunDataDir).   *)
(***************************************************************************)
Itoa(p) == CASE p = 0 -> "0" [] p = 1 -> "1" [] p = 2 -> "2" [] p = 3 -> "3" [] p = 4 -> "4"
             [] p = 5 -> "5" [] OTHER -> "?"

\* strconv.Atoi of a directory entry's name: 0 when it is no PID of the model
Atoi(s) == IF \E p \in Pids : Itoa(p) = s THEN CHOOSE p \in Pids : Itoa(p) = s ELSE 0

lastLink == <<"builds", "last">>
pidsDir == <<"builds", "by-pid">>
pidLink(p) == <<"builds", "by-pid", Itoa(p)>>
buildsDir == <<"builds", "by-hash">>
buildDir(h) == <<"builds", "by-hash", h>>

Dir(path) == SubSeq(path, 1, Len(path) - 1)

\* filepath.Clean on a joined path: ".." removes the component before it
RECURSIVE CleanFrom(_, _)
CleanFrom(done, rest) ==
    IF rest = <<>> THEN done
    ELSE IF Head(rest) = ".." /\ done # <<>>
         THEN CleanFrom(Dir(done), Tail(rest))
         ELSE CleanFrom(Append(done, Head(rest)), Tail(rest))

Join(a, b) == CleanFrom(<<>>, a \o b)

RECURSIVE CommonLen(_, _)
CommonLen(a, b) ==
    IF a = <<>> \/ b = <<>> THEN 0
    ELSE IF Head(a) = Head(b) THEN 1 + CommonLen(Tail(a), Tail(b)) ELSE 0

\* filepath.Rel(base, targ) of two clean paths
Rel(base, targ) ==
    LET n == CommonLen(base, targ)
    IN  [i \in 1..(Len(base) - n) |-> ".."] \o SubSeq(targ, n + 1, Len(targ))

VARIABLES
    alive,      \* alive[p]: process p exists (os.FindProcess + signal 0)
    job,        \* job[p]: the buildJob of p's Build call and where the call stands
    byHash,     \* byHash[h]: the tree builds/by-hash/<h>
    pidLinks,   \* pidLinks[p]: target of the symlink builds/by-pid/<p>
    last,       \* target of the symlink builds/last
    cache,      \* cache[x]: the file blob-cache/<x>
    nbuilds,    \* builds started so far
    nfaults,    \* environment faults so far
    tar,        \* the tarball a layer writer is producing, entry by entry
    toolenv     \* the environment goBuildEnvs makes for the Go toolchain

vars == <<alive, job, byHash, pidLinks, last, cache, nbuilds, nfaults, tar, toolenv>>
fsvars == <<byHash, pidLinks, last, cache>>

(***************************************************************************)
(* The workspace as the build job reads it.                                *)
(***************************************************************************)
Err == <<"<error>">>

IsAbs(t) == t # <<>> /\ Head(t) = "/"

\* isLinkTo as it would be if the link's text were compared with the target's
\* path, neither of them resolved
IsLinkToIn_Textual(lnk, target, dirs, links, lst) ==
    LET t == IF lnk = lastLink THEN lst
             ELSE IF \E p \in Pids : lnk = pidLink(p)
                  THEN links[CHOOSE p \in Pids : lnk = pidLink(p)]
                  ELSE NoLink
    IN  t # NoLink /\ t = <<"/">> \o target

\* isLinkTo on a workspace: both paths resolved (filepath.EvalSymlinks, which
\* fails when the link or what it names does not exist), then compared
IsLinkToIn(lnk, target, dirs, links, lst) ==
    LET tgt(path) == IF path = lastLink THEN lst
                     ELSE IF \E p \in Pids : path = pidLink(p)
                          THEN links[CHOOSE p \in Pids : path = pidLink(p)]
                          ELSE NoLink
        ex(path) == \/ path \in {<<>>, <<"builds">>, buildsDir, pidsDir}
                    \/ \E h \in Hashes : path = buildDir(h) /\ dirs[h].present
        ev(path) == LET t == tgt(path)
                        r == IF IsAbs(t) THEN Tail(t) ELSE Join(Dir(path), t)
                    IN  IF t # NoLink
                        THEN IF ex(r) THEN r ELSE Err
                        ELSE IF ex(path) THEN path ELSE Err
    IN  ev(lnk) # Err /\ ev(target) # Err /\ ev(lnk) = ev(target)

\* isLinkTo on the workspace as it is
isLinkTo(lnk, target) == IsLinkToIn(lnk, target, byHash, pidLinks, last)

\* processExists: the name parses as a PID and that process answers signal 0
processExists(name) == Atoi(name) # 0 /\ alive[Atoi(name)]

\* the names os.ReadDir(pidsDir) returns
PidEntries(links) == {Itoa(p) : p \in {q \in Pids : links[q] # NoLink}}

IsActiveIn(h, dirs, links, lst) ==
    \E d \in PidEntries(links) :
        /\ processExists(d)
        /\ IsLinkToIn(Append(pidsDir, d), buildDir(h), dirs, links, lst)

\* buildJob.isActive for the job whose fingerprint is h
isActive(h) == IsActiveIn(h, byHash, pidLinks, last)

(***************************************************************************)
(* Blobs.  An object is named by what its bytes are made from; a file's    *)
(* bytes are the object and the pieces of it that are there.               *)
(***************************************************************************)
AllChunks == 1..Chunks

Obj(kind, h, plat, x) == <<kind, h, plat, x>>

\* the complete bytes of an object
Full(o) == [of |-> o, got |-> AllChunks]

\* sha256 of bytes, as the hex name of a blob
Sha256(bytes) == <<"sha256", bytes.of, bytes.got>>

\* the length of bytes: up to the last piece written
SizeOf(bytes) == IF bytes.got = {} THEN 0 ELSE CHOOSE n \in bytes.got : \A m \in bytes.got : m <= n

\* sha256 of a layer's uncompressed tar
DiffID(o) == <<"diffid", o>>

NoDesc == [digest |-> <<"sha256", <<>>, {}>>, size |-> 0, platform |-> ""]

EmptyDoc == [config |-> NoDesc, layers |-> <<>>, diffIDs |-> <<>>, env |-> <<>>]

PlatName(pl) ==
    IF pl.Variant = "" THEN pl.OS \o "/" \o pl.Architecture
    ELSE pl.OS \o "/" \o pl.Architecture \o "/" \o pl.Variant

\* the base image the registry serves: its layers in order, the same for
\* every platform, and its config's diffIDs
BaseLayerIds == {"base1", "base2"}
BaseLayers == <<Obj("base", "", "", "base1"), Obj("base", "", "", "base2")>>
BaseLayerDesc(i) ==
    [digest |-> Sha256(Full(BaseLayers[i])), size |-> SizeOf(Full(BaseLayers[i])), platform |-> ""]
BaseManifestLayers == [i \in 1..Len(BaseLayers) |-> BaseLayerDesc(i)]
BaseDiffIDs == [i \in 1..Len(BaseLayers) |-> DiffID(BaseLayers[i])]
\* the env list of the base image's config
BaseEnv == <<"PATH=/usr/bin", "SSL_CERT_DIR=/etc/ssl/certs">>

\* builds/by-hash/<h> as os.MkdirAll leaves it
EmptyDir ==
    [present |-> TRUE, blobsDir |-> FALSE, blobs |-> {}, layout |-> FALSE,
     index |-> NoIndex, scaffold |-> FALSE, tmp |-> {}, bins |-> {}]

\* the bytes of the file a blob entry names: a base layer is a hard link to
\* the cache's file and has that file's bytes
BytesOf(f, c) ==
    IF f.ino = "own" THEN f.bytes
    ELSE [of |-> f.bytes.of, got |-> c[f.bytes.of[4]].got]

(***************************************************************************)
(* Build jobs.                                                             *)
(***************************************************************************)
\* the registry of language builders, by runtime
builders == {"go", "python"}
\* the runtimes Build is called with
Runtimes == {"go", "rust"}

\* fn.DefaultPlatforms; a build asks for a prefix of this list
PlatformList ==
    << [OS |-> "linux", Architecture |-> "amd64", Variant |-> ""],
       [OS |-> "linux", Architecture |-> "arm64", Variant |-> ""],
       [OS |-> "linux", Architecture |-> "arm", Variant |-> "v7"] >>

\* no toolchain environment is being made
NoEnv == [pc |-> "none", platform |-> "", environ |-> <<>>, envs |-> <<>>]

\* no tarball is followed entry by entry
NoTar == [kind |-> "none", pc |-> "none", tree |-> <<>>, todo |-> <<>>, out |-> <<>>, err |-> ""]

IdleJob ==
    [pc |-> "idle", runtime |-> "", hash |-> "", base |-> FALSE, nplat |-> 0,
     cancelled |-> FALSE, deferred |-> FALSE, res |-> "", lastAtStart |-> NoLink,
     prev |-> "", start |-> 0, dd |-> <<>>,
     pi |-> 0, bi |-> 0, off |-> 0, shared |-> <<>>, layers |-> <<>>,
     manifests |-> <<>>, config |-> NoDesc]

\* positions of a Build call in its cleanup pass
CleanupPcs == {"cleanup_pids", "cleanup_dirs", "cleanup_chk", "cleanup_rm"}

\* positions of a Build call in which the call is running
Running(p) == job[p].pc \notin {"idle", "returned", "dead"}

Init ==
    /\ alive = [p \in Pids |-> TRUE]
    /\ job = [p \in Pids |-> IdleJob]
    /\ byHash = [h \in Hashes |-> NoDir]
    /\ pidLinks = [p \in Pids |-> NoLink]
    /\ last = NoLink
    /\ cache = [x \in BaseLayerIds |-> NoFile]
    /\ nbuilds = 0
    /\ nfaults = 0
    /\ tar = NoTar
    /\ toolenv = NoEnv

\* an environment fault may strike: an I/O call or subprocess fails
MayFail == nfaults < MaxFaults

\* Build returns res: the deferred cleanup runs first once it is registered;
\* a call that has returned keeps its result only
Return(p, res) ==
    job' = [job EXCEPT ![p] =
              IF job[p].deferred
              THEN [@ EXCEPT !.pc = "cleanup_pids", !.res = res, !.base = FALSE, !.nplat = 0,
                             !.pi = 0, !.bi = 0, !.off = 0, !.shared = <<>>,
                             !.layers = <<>>, !.manifests = <<>>, !.config = NoDesc]
              ELSE [IdleJob EXCEPT !.pc = "returned", !.res = res]]

Goto(p, pc) == job' = [job EXCEPT ![p].pc = pc]

\* Build as it would be if newBuildJob took a builder for every runtime
Build_AnyRuntime(p, h, rt, np, base) ==
    /\ alive[p] /\ job[p].pc \in {"idle", "returned"}
    /\ nbuilds < MaxBuilds
    /\ nbuilds' = nbuilds + 1
    /\ job' = [job EXCEPT ![p] =
                 [IdleJob EXCEPT !.pc = "setup", !.runtime = rt, !.hash = h, !.base = base,
                                 !.nplat = np, !.lastAtStart = last, !.prev = job[p].res,
                                 !.start = nbuilds + 1]]
    /\ UNCHANGED <<alive, fsvars, nfaults, tar, toolenv>>

\* Builder.Build up to newBuildJob: the job is created, or Build returns its error
Build(p, h, rt, np, base) ==
    /\ alive[p] /\ job[p].pc \in {"idle", "returned"}
    /\ nbuilds < MaxBuilds
    /\ nbuilds' = nbuilds + 1
    /\ job' = [job EXCEPT ![p] =
                 IF rt \in builders
                 THEN [IdleJob EXCEPT !.pc = "setup", !.runtime = rt, !.hash = h, !.base = base,
                                      !.nplat = np, !.lastAtStart = last, !.prev = job[p].res,
                                      !.start = nbuilds + 1]
                 ELSE [IdleJob EXCEPT !.pc = "returned", !.runtime = rt,
                                      !.res = "UnsupportedRuntime"]]
    /\ UNCHANGED <<alive, fsvars, nfaults, tar, toolenv>>

\* setup: if job.isActive() return ErrBuildInProgress
SetupIsActive(p) ==
    /\ alive[p] /\ job[p].pc = "setup"
    /\ IF isActive(job[p].hash)
       THEN Return(p, "BuildInProgress")
       ELSE Goto(p, "setup_rm")
    /\ UNCHANGED <<alive, fsvars, nbuilds, nfaults, tar, toolenv>>

\* setup: os.Stat(buildDir), os.RemoveAll(buildDir) when it exists
SetupRemoveAll(p) ==
    /\ alive[p] /\ job[p].pc = "setup_rm"
    /\ \/ /\ byHash' = [byHash EXCEPT ![job[p].hash] = NoDir]
          /\ Goto(p, "setup_mkdir")
          /\ UNCHANGED nfaults
       \/ /\ MayFail /\ byHash[job[p].hash].present
          /\ nfaults' = nfaults + 1
          /\ Return(p, "error")
          /\ UNCHANGED byHash
    /\ UNCHANGED <<alive, pidLinks, last, cache, nbuilds, tar, toolenv>>

\* setup: os.MkdirAll(buildDir)
SetupMkdirAll(p) ==
    /\ alive[p] /\ job[p].pc = "setup_mkdir"
    /\ byHash' = [byHash EXCEPT ![job[p].hash] = IF @.present THEN @ ELSE EmptyDir]
    /\ Goto(p, "setup_link")
    /\ UNCHANGED <<alive, pidLinks, last, cache, nbuilds, nfaults, tar, toolenv>>

\* setup as it would be if it replaced a by-pid link that is there
SetupSymlink_Replace(p) ==
    /\ alive[p] /\ job[p].pc = "setup_link"
    /\ pidLinks' = [pidLinks EXCEPT ![p] = <<"..", "by-hash", job[p].hash>>]
    /\ Goto(p, "setup_blobs")
    /\ UNCHANGED <<alive, byHash, last, cache, nbuilds, nfaults, tar, toolenv>>

\* setup: os.MkdirAll(pidsDir), os.Symlink("../by-hash/<hash>", pidLink);
\* the symlink fails when the link exists
SetupSymlink(p) ==
    /\ alive[p] /\ job[p].pc = "setup_link"
    /\ IF pidLinks[p] # NoLink
       THEN /\ Return(p, "LinkExists")
            /\ UNCHANGED pidLinks
       ELSE /\ pidLinks' = [pidLinks EXCEPT ![p] = <<"..", "by-hash", job[p].hash>>]
            /\ Goto(p, "setup_blobs")
    /\ UNCHANGED <<alive, byHash, last, cache, nbuilds, nfaults, tar, toolenv>>

\* setup: os.MkdirAll(blobsDir), os.MkdirAll(cacheDir); Build then defers cleanup
SetupBlobsDir(p) ==
    /\ alive[p] /\ job[p].pc = "setup_blobs"
    /\ byHash' = [byHash EXCEPT ![job[p].hash] =
                    IF @.present THEN [@ EXCEPT !.blobsDir = TRUE]
                    ELSE [EmptyDir EXCEPT !.blobsDir = TRUE]]
    /\ job' = [job EXCEPT ![p].pc = "scaffold", ![p].deferred = TRUE]
    /\ UNCHANGED <<alive, pidLinks, last, cache, nbuilds, nfaults, tar, toolenv>>

\* scaffold: scaffolding.Write into the build directory
Scaffold(p) ==
    /\ alive[p] /\ job[p].pc = "scaffold"
    /\ LET h == job[p].hash IN
       \/ /\ byHash[h].present
          /\ byHash' = [byHash EXCEPT ![h].scaffold = TRUE]
          /\ Goto(p, "oci_layout")
          /\ UNCHANGED nfaults
       \/ /\ ~byHash[h].present
          /\ Return(p, "error")
          /\ UNCHANGED <<byHash, nfaults>>
       \/ /\ MayFail
          /\ nfaults' = nfaults + 1
          /\ Return(p, "error")
          /\ UNCHANGED byHash
    /\ UNCHANGED <<alive, pidLinks, last, cache, nbuilds, tar, toolenv>>

\* containerize: os.WriteFile(ociDir/oci-layout)
WriteOciLayout(p) ==
    /\ alive[p] /\ job[p].pc = "oci_layout"
    /\ LET h == job[p].hash IN
       IF byHash[h].present /\ byHash[h].blobsDir
       THEN /\ byHash' = [byHash EXCEPT ![h].layout = TRUE]
            /\ Goto(p, "data")
       ELSE /\ Return(p, "error")
            /\ UNCHANGED byHash
    /\ UNCHANGED <<alive, pidLinks, last, cache, nbuilds, nfaults, tar, toolenv>>

\* the imageLayer of a tarball written for object o
ImageLayer(o) ==
    [Descriptor |-> [digest |-> Sha256(Full(o)), size |-> SizeOf(Full(o)), platform |-> ""],
     Layer |-> o]

\* a tarball written to the temporary file tmp, described and renamed to
\* blobs/sha256/<digest>: the tree afterwards
RenameToBlob(d, tmp, o) ==
    [d EXCEPT !.tmp = @ \ {tmp},
              !.blobs = {f \in @ : f.name # Sha256(Full(o))} \cup
                        {[name |-> Sha256(Full(o)), ino |-> "own", bytes |-> Full(o), doc |-> EmptyDoc]}]

\* writeDataLayer, writeCertsLayer, goBuilder.WritePlatform from the tarball on:
\* the tarball is created in the build directory, then renamed into blobs; a
\* tarball that fails part-way stays in the build directory
WriteLayer(p, tmp, o, after) ==
    LET h == job[p].hash IN
    \/ /\ byHash[h].present /\ byHash[h].blobsDir
       /\ byHash' = [byHash EXCEPT ![h] = RenameToBlob(@, tmp, o)]
       /\ job' = [job EXCEPT ![p] = after]
       /\ UNCHANGED nfaults
    \/ /\ byHash[h].present /\ ~byHash[h].blobsDir
       /\ byHash' = [byHash EXCEPT ![h].tmp = @ \cup {tmp}]
       /\ Return(p, "error")
       /\ UNCHANGED nfaults
    \/ /\ ~byHash[h].present
       /\ Return(p, "error")
       /\ UNCHANGED <<byHash, nfaults>>
    \/ /\ MayFail /\ byHash[h].present
       /\ nfaults' = nfaults + 1
       /\ byHash' = [byHash EXCEPT ![h].tmp = @ \cup {tmp}]
       /\ Return(p, "error")

\* containerize: writeDataLayer, the source tree as the first shared layer
WriteDataLayer(p) ==
    /\ alive[p] /\ job[p].pc = "data"
    /\ WriteLayer(p, "datalayer.tar.gz", Obj("data", job[p].hash, "", ""),
                  [job[p] EXCEPT !.pc = "certs",
                                 !.shared = Append(@, ImageLayer(Obj("data", job[p].hash, "", "")))])
    /\ UNCHANGED <<alive, pidLinks, last, cache, nbuilds, tar, toolenv>>

\* goBuilder.WriteShared: no shared layers
goWriteShared == <<>>

\* containerize: writeCertsLayer, then the language builder's shared layers
WriteCertsLayer(p) ==
    /\ alive[p] /\ job[p].pc = "certs"
    /\ WriteLayer(p, "certslayer.tar.gz", Obj("certs", "", "", ""),
                  [job[p] EXCEPT !.pc = "tidy", !.pi = 1,
                                 !.shared = Append(@, ImageLayer(Obj("certs", "", "", ""))) \o goWriteShared])
    /\ UNCHANGED <<alive, pidLinks, last, cache, nbuilds, tar, toolenv>>

\* the platform the loop of containerize is at
Platform(p) == PlatformList[job[p].pi]

\* exec.CommandContext(job.ctx, ...).Run(): the subprocess does not run, or is
\* killed, once the context is cancelled
CtxDone(p) == job[p].cancelled

\* goBuild: go mod tidy
GoModTidy(p) ==
    /\ alive[p] /\ job[p].pc = "tidy"
    /\ \/ /\ CtxDone(p)
          /\ Return(p, "Canceled")
          /\ UNCHANGED nfaults
       \/ /\ ~CtxDone(p)
          /\ Goto(p, "gobuild")
          /\ UNCHANGED nfaults
       \/ /\ ~CtxDone(p) /\ MayFail
          /\ nfaults' = nfaults + 1
          /\ Return(p, "ToolchainFailed")
    /\ UNCHANGED <<alive, fsvars, nbuilds, tar, toolenv>>

\* goBuild: go build -o result/f.<os>.<arch>[.<variant>] in the build directory
GoBuild(p) ==
    /\ alive[p] /\ job[p].pc = "gobuild"
    /\ LET h == job[p].hash IN
       \/ /\ CtxDone(p)
          /\ Return(p, "Canceled")
          /\ UNCHANGED <<byHash, nfaults>>
       \/ /\ ~CtxDone(p) /\ byHash[h].present /\ byHash[h].scaffold
          /\ byHash' = [byHash EXCEPT ![h].bins = @ \cup {PlatName(Platform(p))}]
          /\ Goto(p, "exe")
          /\ UNCHANGED nfaults
       \/ /\ ~CtxDone(p) /\ ~(byHash[h].present /\ byHash[h].scaffold)
          /\ Return(p, "ToolchainFailed")
          /\ UNCHANGED <<byHash, nfaults>>
       \/ /\ ~CtxDone(p) /\ MayFail
          /\ nfaults' = nfaults + 1
          /\ Return(p, "ToolchainFailed")
          /\ UNCHANGED byHash
    /\ UNCHANGED <<alive, pidLinks, last, cache, nbuilds, tar, toolenv>>

\* goBuilder.WritePlatform after goBuild: the executable's tarball as the
\* platform's layer; containerize: layers := append(sharedLayers, platform...)
WritePlatform(p) ==
    /\ alive[p] /\ job[p].pc = "exe"
    /\ LET h == job[p].hash
           o == Obj("exe", h, PlatName(Platform(p)), "")
       IN  IF byHash[h].present /\ PlatName(Platform(p)) \in byHash[h].bins
           THEN WriteLayer(p, "execlayer.tar.gz", o,
                           [job[p] EXCEPT !.pc = "pull",
                                          !.layers = job[p].shared \o <<ImageLayer(o)>>])
           ELSE Return(p, "error") /\ UNCHANGED <<byHash, nfaults>>
    /\ UNCHANGED <<alive, pidLinks, last, cache, nbuilds, tar, toolenv>>

\* the cache entry of the base layer the loop of pullBase is at
BaseId(p) == BaseLayers[job[p].bi][4]

\* pullBase: no base image, or remote.Get of the platform's image
PullBase(p) ==
    /\ alive[p] /\ job[p].pc = "pull"
    /\ \/ /\ ~job[p].base
          /\ Goto(p, "config")
          /\ UNCHANGED nfaults
       \/ /\ job[p].base
          /\ job' = [job EXCEPT ![p].pc = "cache_stat", ![p].bi = 1]
          /\ UNCHANGED nfaults
       \/ /\ job[p].base /\ MayFail
          /\ nfaults' = nfaults + 1
          /\ Return(p, "RegistryFetchFailed")
    /\ UNCHANGED <<alive, fsvars, nbuilds, tar, toolenv>>

\* ensureCached: os.Stat(cachePath); a file that is there is taken as cached
EnsureCachedStat(p) ==
    /\ alive[p] /\ job[p].pc = "cache_stat"
    /\ IF cache[BaseId(p)].present
       THEN Goto(p, "link")
       ELSE Goto(p, "cache_create")
    /\ UNCHANGED <<alive, fsvars, nbuilds, nfaults, tar, toolenv>>

\* ensureCached: os.Create(cachePath), which truncates a file that is there
EnsureCachedCreate(p) ==
    /\ alive[p] /\ job[p].pc = "cache_create"
    /\ cache' = [cache EXCEPT ![BaseId(p)] = [present |-> TRUE, got |-> {}]]
    /\ job' = [job EXCEPT ![p].pc = "cache_copy", ![p].off = 0]
    /\ UNCHANGED <<alive, byHash, pidLinks, last, nbuilds, nfaults, tar, toolenv>>

\* ensureCached: io.Copy(file, reader), one piece at this writer's offset; a
\* failed copy returns the error and leaves the file as it is
EnsureCachedCopy(p) ==
    /\ alive[p] /\ job[p].pc = "cache_copy"
    /\ \/ /\ cache' = [cache EXCEPT ![BaseId(p)].got = @ \cup {job[p].off + 1}]
          /\ job' = [job EXCEPT ![p].off = @ + 1,
                                ![p].pc = IF job[p].off + 1 = Chunks THEN "link" ELSE "cache_copy"]
          /\ UNCHANGED nfaults
       \/ /\ MayFail
          /\ nfaults' = nfaults + 1
          /\ Return(p, "error")
          /\ UNCHANGED cache
    /\ UNCHANGED <<alive, byHash, pidLinks, last, nbuilds, tar, toolenv>>

\* writeBaseLayer after ensureCached: os.Link(cache file, blobs/sha256/<digest>)
\* unless the blob is there; then the next base layer
WriteBaseLayer(p) ==
    /\ alive[p] /\ job[p].pc = "link"
    /\ LET h == job[p].hash
           o == BaseLayers[job[p].bi]
           name == Sha256(Full(o))
           more == job[p].bi < Len(BaseLayers)
           onward == [job[p] EXCEPT !.pc = IF more THEN "cache_stat" ELSE "config",
                                    !.bi = IF more THEN @ + 1 ELSE 0, !.off = 0]
       IN  IF byHash[h].present /\ \E f \in byHash[h].blobs : f.name = name
           THEN /\ job' = [job EXCEPT ![p] = onward]
                /\ UNCHANGED byHash
           ELSE IF byHash[h].present /\ byHash[h].blobsDir
           THEN /\ byHash' = [byHash EXCEPT ![h].blobs = @ \cup
                                {[name |-> name, ino |-> "cache", bytes |-> Full(o), doc |-> EmptyDoc]}]
                /\ job' = [job EXCEPT ![p] = onward]
           ELSE /\ Return(p, "error")
                /\ UNCHANGED byHash
    /\ UNCHANGED <<alive, pidLinks, last, cache, nbuilds, nfaults, tar, toolenv>>

\* writeAsJSONBlob: the document encoded into a temporary file of the build
\* directory while hashed, then renamed to blobs/sha256/<hash>: the tree afterwards
JSONBlob(d, o, doc) ==
    [d EXCEPT !.blobs = {f \in @ : f.name # Sha256(Full(o))} \cup
                        {[name |-> Sha256(Full(o)), ino |-> "own", bytes |-> Full(o), doc |-> doc]}]

\* the descriptor writeAsJSONBlob returns
JSONDesc(o, plat) == [digest |-> Sha256(Full(o)), size |-> SizeOf(Full(o)), platform |-> plat]

Descriptors(ls) == [i \in 1..Len(ls) |-> ls[i].Descriptor]
DiffIDs(ls) == [i \in 1..Len(ls) |-> DiffID(ls[i].Layer)]

\* job.start.Format(time.RFC3339) of the model's n-th instant
RFC3339(n) == "T" \o Itoa(n)

\* the function's Run.Envs.Slice(), by the fingerprint of the project
FunctionEnvs(h) == IF h = HashOrder[1] THEN <<"B=2", "A=1">> ELSE <<"A=1">>

\* the tag `git describe --tags` prints in the project, "" when there is none
\* to describe and the command fails
GitTag(h) == IF h = HashOrder[1] THEN "v1" ELSE ""

\* the outputs git describe may give a job: its error is the output ""
GitDescribe(p) ==
    { v \in {GitTag(job[p].hash), ""} : (CtxDone(p) => v = "") /\ (v = "" => (CtxDone(p) \/ GitTag(job[p].hash) = "" \/ MayFail)) }

\* newConfigEnvs as it would be if a failed git describe left FUNC_VERSION out
newConfigEnvs_OmitVersion(start, ver, fenvs) ==
    IF ver = "" THEN <<"FUNC_CREATED=" \o RFC3339(start)>> \o fenvs
    ELSE <<"FUNC_CREATED=" \o RFC3339(start), "FUNC_VERSION=" \o ver>> \o fenvs

\* newConfigEnvs: FUNC_CREATED, FUNC_VERSION (empty when git describe failed),
\* then the function's envs
newConfigEnvs(start, ver, fenvs) ==
    <<"FUNC_CREATED=" \o RFC3339(start), "FUNC_VERSION=" \o ver>> \o fenvs

\* newConfigFile as it would be if the base's diffIDs were appended to ours
newConfigFile_BaseLast(base, ls, envs) ==
    [EmptyDoc EXCEPT !.diffIDs = IF base THEN DiffIDs(ls) \o BaseDiffIDs ELSE DiffIDs(ls),
                     !.env = IF base THEN BaseEnv \o envs ELSE envs]

\* newConfigFile: the envs and rootfs.diffIDs of the layers, the base's prepended
newConfigFile(base, ls, envs) ==
    [EmptyDoc EXCEPT !.diffIDs = IF base THEN BaseDiffIDs \o DiffIDs(ls) ELSE DiffIDs(ls),
                     !.env = IF base THEN BaseEnv \o envs ELSE envs]

\* goBuilder.Configure
Configure(cf) == [cf EXCEPT !.env = Append(@, "LISTEN_ADDRESS=[::]:8080")]

\* writeManifest: the base's layers, then ours
newManifest(base, configDesc, ls) ==
    [EmptyDoc EXCEPT !.config = configDesc,
                     !.layers = IF base THEN BaseManifestLayers \o Descriptors(ls) ELSE Descriptors(ls)]

BaseTag(b) == IF b THEN "base" ELSE "scratch"

\* what of a config is in its digest besides the function, platform and layers
ConfigTag(base, start, ver) == BaseTag(base) \o "+" \o RFC3339(start) \o "+" \o ver

\* containerize: newConfigFile (git describe runs under the job's context and its
\* failure is not an error), Configure, writeConfig
WriteConfig(p) ==
    /\ alive[p] /\ job[p].pc = "config"
    /\ \E ver \in GitDescribe(p) :
       LET h == job[p].hash
           o == Obj("config", h, PlatName(Platform(p)), ConfigTag(job[p].base, job[p].start, ver))
           cf == Configure(newConfigFile(job[p].base, job[p].layers,
                                         newConfigEnvs(job[p].start, ver, FunctionEnvs(h))))
       IN  /\ nfaults' = IF ver = "" /\ ~CtxDone(p) /\ GitTag(h) # "" THEN nfaults + 1 ELSE nfaults
           /\ IF byHash[h].present /\ byHash[h].blobsDir
              THEN /\ byHash' = [byHash EXCEPT ![h] = JSONBlob(@, o, cf)]
                   /\ job' = [job EXCEPT ![p].pc = "manifest", ![p].config = JSONDesc(o, "")]
              ELSE /\ Return(p, "error")
                   /\ UNCHANGED byHash
    /\ UNCHANGED <<alive, pidLinks, last, cache, nbuilds, tar, toolenv>>

\* containerize: writeManifest, then the next platform
WriteManifest(p) ==
    /\ alive[p] /\ job[p].pc = "manifest"
    /\ LET h == job[p].hash
           o == Obj("manifest", h, PlatName(Platform(p)), job[p].config.digest[2][4])
           more == job[p].pi < job[p].nplat
       IN  IF byHash[h].present /\ byHash[h].blobsDir
           THEN /\ byHash' = [byHash EXCEPT ![h] =
                                JSONBlob(@, o, newManifest(job[p].base, job[p].config, job[p].layers))]
                /\ job' = [job EXCEPT ![p].pc = IF more THEN "tidy" ELSE "index",
                                      ![p].pi = IF more THEN @ + 1 ELSE @,
                                      ![p].layers = <<>>, ![p].config = NoDesc,
                                      ![p].manifests = Append(@, JSONDesc(o, PlatName(Platform(p))))]
           ELSE /\ Return(p, "error")
                /\ UNCHANGED byHash
    /\ UNCHANGED <<alive, pidLinks, last, cache, nbuilds, nfaults, tar, toolenv>>

\* writeIndex as it would be if every manifest descriptor shared one platform
\* value, that of the last platform of the loop
WriteIndex_SharedPlatform(p) ==
    /\ alive[p] /\ job[p].pc = "index"
    /\ LET h == job[p].hash
           pl == PlatName(PlatformList[job[p].nplat])
       IN
       IF byHash[h].present /\ byHash[h].blobsDir
       THEN /\ byHash' = [byHash EXCEPT ![h].index =
                            [present |-> TRUE,
                             manifests |-> [i \in 1..Len(job[p].manifests) |->
                                              [job[p].manifests[i] EXCEPT !.platform = pl]]]]
            /\ Goto(p, "last_rm")
       ELSE /\ Return(p, "error")
            /\ UNCHANGED byHash
    /\ UNCHANGED <<alive, pidLinks, last, cache, nbuilds, nfaults, tar, toolenv>>

\* containerize: writeIndex, os.Create(ociDir/index.json)
WriteIndex(p) ==
    /\ alive[p] /\ job[p].pc = "index"
    /\ LET h == job[p].hash IN
       IF byHash[h].present /\ byHash[h].blobsDir
       THEN /\ byHash' = [byHash EXCEPT ![h].index = [present |-> TRUE, manifests |-> job[p].manifests]]
            /\ Goto(p, "last_rm")
       ELSE /\ Return(p, "error")
            /\ UNCHANGED byHash
    /\ UNCHANGED <<alive, pidLinks, last, cache, nbuilds, nfaults, tar, toolenv>>

\* updateLastLink: _ = os.RemoveAll(lastLink)
UpdateLastLinkRemove(p) ==
    /\ alive[p] /\ job[p].pc = "last_rm"
    /\ last' = NoLink
    /\ Goto(p, "last_ln")
    /\ UNCHANGED <<alive, byHash, pidLinks, cache, nbuilds, nfaults, tar, toolenv>>

\* the link target as it would be if the build directory's path were not made
\* relative to the link's directory
LastTarget_Abs(h) == <<"/">> \o buildDir(h)

\* the target updateLastLink gives the link
LastTarget(h) == Rel(Dir(lastLink), buildDir(h))

\* updateLastLink: os.Symlink(rel path of the build directory, lastLink), which
\* fails when the link exists; Build returns nil when it succeeds
UpdateLastLinkSymlink(p) ==
    /\ alive[p] /\ job[p].pc = "last_ln"
    /\ \/ /\ last = NoLink
          /\ last' = LastTarget(job[p].hash)
          /\ Return(p, "ok")
          /\ UNCHANGED nfaults
       \/ /\ last # NoLink
          /\ Return(p, "LinkExists")
          /\ UNCHANGED <<last, nfaults>>
       \/ /\ MayFail
          /\ nfaults' = nfaults + 1
          /\ Return(p, "error")
          /\ UNCHANGED last
    /\ UNCHANGED <<alive, byHash, pidLinks, cache, nbuilds, tar, toolenv>>

\* cleanup's second loop goes on to the entries that remain, and Build returns
\* after the last
CleanupOnward(p, rest) ==
    job' = [job EXCEPT ![p] =
              IF rest = <<>> THEN [IdleJob EXCEPT !.pc = "returned", !.res = job[p].res]
              ELSE [@ EXCEPT !.pc = "cleanup_chk", !.dd = rest]]

\* cleanup, first loop: the by-pid entries whose process does not exist are removed
CleanupPids(p) ==
    /\ alive[p] /\ job[p].pc = "cleanup_pids"
    /\ pidLinks' = [q \in Pids |->
                      IF pidLinks[q] # NoLink /\ ~processExists(Itoa(q)) THEN NoLink ELSE pidLinks[q]]
    /\ Goto(p, "cleanup_dirs")
    /\ UNCHANGED <<alive, byHash, last, cache, nbuilds, nfaults, tar, toolenv>>

\* cleanup, second loop: os.ReadDir(buildsDir), the entries sorted by name
CleanupDirs(p) ==
    /\ alive[p] /\ job[p].pc = "cleanup_dirs"
    /\ CleanupOnward(p, SelectSeq(HashOrder, LAMBDA h : byHash[h].present))
    /\ UNCHANGED <<alive, fsvars, nbuilds, nfaults, tar, toolenv>>

\* cleanup, second loop at an entry, a call at a time: the tests (the directory
\* is kept when last links to it or when job.isActive()), then os.RemoveAll(dir)
\* of a directory that was not kept
CleanupDir(p) ==
    /\ alive[p] /\ job[p].pc \in {"cleanup_chk", "cleanup_rm"}
    /\ IF job[p].pc = "cleanup_rm"
       THEN /\ byHash' = [byHash EXCEPT ![Head(job[p].dd)] = NoDir]
            /\ CleanupOnward(p, Tail(job[p].dd))
       ELSE /\ IF isLinkTo(lastLink, buildDir(Head(job[p].dd))) \/ isActive(job[p].hash)
               THEN CleanupOnward(p, Tail(job[p].dd))
               ELSE Goto(p, "cleanup_rm")
            /\ UNCHANGED byHash
    /\ UNCHANGED <<alive, pidLinks, last, cache, nbuilds, nfaults, tar, toolenv>>

\* the build context is cancelled (SIGINT, SIGTERM) while Build runs
Cancel(p) ==
    /\ alive[p] /\ Running(p) /\ ~job[p].cancelled
    /\ MayFail
    /\ nfaults' = nfaults + 1
    /\ job' = [job EXCEPT ![p].cancelled = TRUE]
    /\ UNCHANGED <<alive, fsvars, nbuilds, tar, toolenv>>

\* the process ends: it exits between builds, or is killed while Build runs
Exit(p) ==
    /\ alive[p]
    /\ Running(p) => MayFail
    /\ nfaults' = IF Running(p) THEN nfaults + 1 ELSE nfaults
    /\ alive' = [alive EXCEPT ![p] = FALSE]
    /\ job' = [job EXCEPT ![p] = [IdleJob EXCEPT !.pc = "dead"]]
    /\ UNCHANGED <<fsvars, nbuilds, tar, toolenv>>

\* the steps of a Build that has started, and the environment's
Run(p) ==
    \/ SetupIsActive(p)
    \/ SetupRemoveAll(p)
    \/ SetupMkdirAll(p)
    \/ SetupSymlink(p)
    \/ SetupBlobsDir(p)
    \/ Scaffold(p)
    \/ WriteOciLayout(p)
    \/ WriteDataLayer(p)
    \/ WriteCertsLayer(p)
    \/ GoModTidy(p)
    \/ GoBuild(p)
    \/ WritePlatform(p)
    \/ PullBase(p)
    \/ EnsureCachedStat(p)
    \/ EnsureCachedCreate(p)
    \/ EnsureCachedCopy(p)
    \/ WriteBaseLayer(p)
    \/ WriteConfig(p)
    \/ WriteManifest(p)
    \/ WriteIndex(p)
    \/ UpdateLastLinkRemove(p)
    \/ UpdateLastLinkSymlink(p)
    \/ CleanupPids(p)
    \/ CleanupDirs(p)
    \/ CleanupDir(p)
    \/ Cancel(p)
    \/ Exit(p)

\* no other process is in Build
Alone(p) == \A q \in Pids \ {p} : ~Running(q)

\* a step of the only process in Build, or of the environment between builds
RunAlone(p) ==
    \/ Alone(p) /\ SetupIsActive(p)
    \/ Alone(p) /\ SetupRemoveAll(p)
    \/ Alone(p) /\ SetupMkdirAll(p)
    \/ Alone(p) /\ SetupSymlink(p)
    \/ Alone(p) /\ SetupBlobsDir(p)
    \/ Alone(p) /\ Scaffold(p)
    \/ Alone(p) /\ WriteOciLayout(p)
    \/ Alone(p) /\ WriteDataLayer(p)
    \/ Alone(p) /\ WriteCertsLayer(p)
    \/ Alone(p) /\ GoModTidy(p)
    \/ Alone(p) /\ GoBuild(p)
    \/ Alone(p) /\ WritePlatform(p)
    \/ Alone(p) /\ PullBase(p)
    \/ Alone(p) /\ EnsureCachedStat(p)
    \/ Alone(p) /\ EnsureCachedCreate(p)
    \/ Alone(p) /\ EnsureCachedCopy(p)
    \/ Alone(p) /\ WriteBaseLayer(p)
    \/ Alone(p) /\ WriteConfig(p)
    \/ Alone(p) /\ WriteManifest(p)
    \/ Alone(p) /\ WriteIndex(p)
    \/ Alone(p) /\ UpdateLastLinkRemove(p)
    \/ Alone(p) /\ UpdateLastLinkSymlink(p)
    \/ Alone(p) /\ CleanupPids(p)
    \/ Alone(p) /\ CleanupDirs(p)
    \/ Alone(p) /\ CleanupDir(p)
    \/ Alone(p) /\ Cancel(p)
    \/ Alone(p) /\ Exit(p)

\* Build called while no other process is in Build
BuildAlone(p) ==
    /\ Alone(p)
    /\ \E h \in Hashes, rt \in Runtimes, np \in 1..MaxPlatforms, base \in BOOLEAN :
          Build(p, h, rt, np, base)

\* builds one after another, by any of the processes
Next == \E p \in Pids : BuildAlone(p) \/ RunAlone(p)

Spec == Init /\ [][Next]_vars

\* the one Build of a process, for one platform, started at any time
BuildBeside(p) ==
    /\ job[p].pc = "idle"
    /\ \E h \in Hashes, rt \in Runtimes, base \in BOOLEAN : Build(p, h, rt, 1, base)

\* builds side by side: each process calls Build once, steps interleave freely
ConcNext == \E p \in Pids : BuildBeside(p) \/ Run(p)

ConcSpec == Init /\ [][ConcNext]_vars

(***************************************************************************)
(* The cleanup pass from its first call to its last, nothing else acting   *)
(* on the workspace, and the pass run again.                               *)
(***************************************************************************)
\* the first loop of cleanup as it would be if it removed only the entries of
\* dead processes whose link resolves to nothing
PidsLoop_DanglingOnly(dirs, links, lst) ==
    [q \in Pids |->
        IF /\ links[q] # NoLink /\ ~processExists(Itoa(q))
           /\ \A h \in Hashes : ~IsLinkToIn(pidLink(q), buildDir(h), dirs, links, lst)
        THEN NoLink ELSE links[q]]

\* the first loop of cleanup: the by-pid entries left
PidsLoop(dirs, links, lst) ==
    [q \in Pids |-> IF links[q] # NoLink /\ ~processExists(Itoa(q)) THEN NoLink ELSE links[q]]

\* the second loop of cleanup over the entries dd of by-hash, for the job of
\* fingerprint h: the directories left
RECURSIVE DirsLoop(_, _, _, _, _)
DirsLoop(h, dd, dirs, links, lst) ==
    IF dd = <<>> THEN dirs
    ELSE IF \/ IsLinkToIn(lastLink, buildDir(Head(dd)), dirs, links, lst)
            \/ IsActiveIn(h, dirs, links, lst)
         THEN DirsLoop(h, Tail(dd), dirs, links, lst)
         ELSE DirsLoop(h, Tail(dd), [dirs EXCEPT ![Head(dd)] = NoDir], links, lst)

\* cleanup(job) on a workspace: the by-pid entries and by-hash directories left
cleanup(h, dirs, links, lst) ==
    LET left == PidsLoop(dirs, links, lst)
    IN  [links |-> left,
         dirs |-> DirsLoop(h, SelectSeq(HashOrder, LAMBDA d : dirs[d].present), dirs, left, lst)]

\* the workspaces a cleanup pass finds when no build is in progress: process p
\* is at the deferred cleanup of its job, its by-pid link made by setup; the
\* other processes have returned or died and left directories and links
CleanInit ==
    /\ cache = [x \in BaseLayerIds |-> NoFile]
    /\ nbuilds = 0
    /\ nfaults = 0
    /\ tar = NoTar
    /\ toolenv = NoEnv
    /\ \E p \in Pids, h \in Hashes :
          /\ alive \in {a \in [Pids -> BOOLEAN] : a[p]}
          /\ job = [q \in Pids |->
                      IF q = p THEN [IdleJob EXCEPT !.pc = "clean", !.runtime = "go", !.hash = h,
                                                    !.deferred = TRUE, !.res = "error"]
                      ELSE IF alive[q] THEN IdleJob ELSE [IdleJob EXCEPT !.pc = "dead"]]
          /\ byHash \in [Hashes -> {NoDir, EmptyDir}]
          /\ pidLinks \in {l \in [Pids -> {NoLink} \cup {<<"..", "by-hash", d>> : d \in Hashes}] :
                             l[p] = <<"..", "by-hash", h>>}
          /\ last \in {NoLink} \cup {LastTarget(d) : d \in Hashes}

\* cleanup(job), run from start to end
CleanupPass(p) ==
    /\ alive[p] /\ job[p].pc = "clean"
    /\ LET w == cleanup(job[p].hash, byHash, pidLinks, last) IN
       /\ byHash' = w.dirs
       /\ pidLinks' = w.links
    /\ Goto(p, "clean_again")
    /\ UNCHANGED <<alive, last, cache, nbuilds, nfaults, tar, toolenv>>

\* cleanup(job) run a second time for the same job
CleanupAgain(p) ==
    /\ alive[p] /\ job[p].pc = "clean_again"
    /\ LET w == cleanup(job[p].hash, byHash, pidLinks, last) IN
       /\ byHash' = w.dirs
       /\ pidLinks' = w.links
    /\ job' = [job EXCEPT ![p] = [IdleJob EXCEPT !.pc = "returned", !.res = job[p].res]]
    /\ UNCHANGED <<alive, last, cache, nbuilds, nfaults, tar, toolenv>>

CleanNext == \E p \in Pids : CleanupPass(p) \/ CleanupAgain(p)

CleanSpec == CleanInit /\ [][CleanNext]_vars

(***************************************************************************)
(* The tarballs of the layers, entry by entry.  A project tree is the      *)
(* sequence of its entries in the order filepath.Walk visits them: the     *)
(* root first, each directory before what it holds, names sorted.          *)
(***************************************************************************)
\* the UID and GID of every file of the image
DefaultUid == 1000
DefaultGid == 1000

defaultIgnored == {".git", ".func", ".funcignore", ".gitignore"}

\* the project root, an absolute path
ProjRoot == <<"w", "proj">>

\* the owners a file has on the host
HostUids == {0, 1000, 1001}

\* the targets the symlinks of a tree have; a target is absolute when its
\* first component is "/"
LinkTargets ==
    { <<"/", "etc", "ca">>, <<"..", "z">>, <<"..">>, <<"m.go">>, <<"..", "proj", "z">> }

Entry(path, kind, target, u) ==
    [path |-> path, kind |-> kind, target |-> target, uid |-> u, gid |-> u]

\* what may be at a name: nothing, a file, a directory, a symlink
NodeOpts ==
    { [kind |-> k, target |-> <<>>] : k \in {"none", "file", "dir"} } \cup
    { [kind |-> "link", target |-> t] : t \in LinkTargets }
LeafOpts == { o \in NodeOpts : o.kind # "dir" }

\* the entry at path, when there is one, and below a directory what it holds
Node(path, o, below, u) ==
    IF o.kind = "none" THEN <<>>
    ELSE <<Entry(path, o.kind, o.target, u)>> \o (IF o.kind = "dir" THEN below ELSE <<>>)

\* a project tree: a first entry <a> (with <a>/c below it), lib (with lib/<d>
\* and lib/<d>/k below it) and z, all owned by u
Tree(a, ao, co, lo, d, do, zo, u) ==
    <<Entry(<<>>, "dir", <<>>, u)>>
        \o Node(<<a>>, ao, Node(<<a, "c">>, co, <<>>, u), u)
        \o Node(<<"lib">>, lo, Node(<<"lib", d>>, do, Node(<<"lib", d, "k">>, [kind |-> "file", target |-> <<>>], <<>>, u), u), u)
        \o Node(<<"z">>, zo, <<>>, u)

\* filepath.Clean of an absolute path: "." names the directory itself, ".."
\* its parent, and the parent of "/" is "/"
RECURSIVE CleanAbs(_, _)
CleanAbs(done, rest) ==
    IF rest = <<>> THEN done
    ELSE IF Head(rest) = "." THEN CleanAbs(done, Tail(rest))
    ELSE IF Head(rest) = ".."
         THEN CleanAbs(IF done = <<>> THEN done ELSE Dir(done), Tail(rest))
         ELSE CleanAbs(Append(done, Head(rest)), Tail(rest))

\* filepath.Join of an absolute directory and a relative path
AbsJoin(dir, t) == CleanAbs(<<>>, dir \o t)

\* validatedLinkTarget as it would be without the test for the root's parent itself
validatedLinkTarget_NoParent(root, path, tgt) ==
    IF IsAbs(tgt) THEN [tgt |-> tgt, err |-> "AbsoluteLink"]
    ELSE LET lnkTgt == AbsJoin(Dir(path), tgt)
             relLnkTgt == Rel(root, lnkTgt)
         IN  IF Len(relLnkTgt) > 1 /\ Head(relLnkTgt) = ".."
             THEN [tgt |-> tgt, err |-> "LinkEscapesRoot"]
             ELSE [tgt |-> tgt, err |-> ""]

\* validatedLinkTarget of the link at path whose os.Readlink is tgt
validatedLinkTarget(root, path, tgt) ==
    IF IsAbs(tgt) THEN [tgt |-> tgt, err |-> "AbsoluteLink"]
    ELSE LET lnkTgt == AbsJoin(Dir(path), tgt)
             relLnkTgt == Rel(root, lnkTgt)
         IN  IF (Len(relLnkTgt) > 1 /\ Head(relLnkTgt) = "..") \/ relLnkTgt = <<"..">>
             THEN [tgt |-> tgt, err |-> "LinkEscapesRoot"]
             ELSE [tgt |-> tgt, err |-> ""]

\* tar.FileInfoHeader: the header takes the file's owner on the host
FileInfoHeader(e, lnk) ==
    [Name |-> IF e.path = <<>> THEN "" ELSE e.path[Len(e.path)],
     Typeflag |-> e.kind, Linkname |-> lnk, Uid |-> e.uid, Gid |-> e.gid]

\* the name of the entry Walk is at (info.Name()); the root has its directory's
BaseName(e) == IF e.path = <<>> THEN ProjRoot[Len(ProjRoot)] ELSE e.path[Len(e.path)]

\* b is beneath the directory a
Beneath(a, b) == Len(b) > Len(a) /\ SubSeq(b, 1, Len(a)) = a

\* filepath.SkipDir: the rest of the walk without what the directory holds
RECURSIVE SkipDir(_, _)
SkipDir(dir, rest) ==
    IF rest = <<>> THEN <<>>
    ELSE IF Beneath(dir, Head(rest).path) THEN SkipDir(dir, Tail(rest))
    ELSE rest

\* newDataTarball without the test for ignored names on files and symlinks
WalkFn_DirsOnly(t) ==
    LET e == Head(t.todo)
        v == validatedLinkTarget(ProjRoot, ProjRoot \o e.path, e.target)
    IN  IF BaseName(e) \in defaultIgnored /\ e.kind = "dir"
        THEN [t EXCEPT !.todo = SkipDir(e.path, Tail(t.todo))]
        ELSE IF e.kind = "link" /\ v.err # ""
        THEN [t EXCEPT !.todo = <<>>, !.err = v.err]
        ELSE [t EXCEPT !.todo = Tail(@),
                       !.out = Append(@, [FileInfoHeader(e, IF e.kind = "link" THEN v.tgt ELSE <<>>)
                                             EXCEPT !.Name = <<"func">> \o e.path,
                                                    !.Uid = DefaultUid, !.Gid = DefaultGid])]

\* newDataTarball: the function filepath.Walk calls for the entry it is at
WalkFn(t) ==
    LET e == Head(t.todo)
        v == validatedLinkTarget(ProjRoot, ProjRoot \o e.path, e.target)
    IN  IF BaseName(e) \in defaultIgnored
        THEN [t EXCEPT !.todo = IF e.kind = "dir" THEN SkipDir(e.path, Tail(t.todo)) ELSE Tail(t.todo)]
        ELSE IF e.kind = "link" /\ v.err # ""
        THEN [t EXCEPT !.todo = <<>>, !.err = v.err]
        ELSE [t EXCEPT !.todo = Tail(@),
                       !.out = Append(@, [FileInfoHeader(e, IF e.kind = "link" THEN v.tgt ELSE <<>>)
                                             EXCEPT !.Name = <<"func">> \o e.path,
                                                    !.Uid = DefaultUid, !.Gid = DefaultGid])]

\* newCertsTarball: ca-certificates.crt of the build directory at both paths
newCertsTarball(fi) ==
    [i \in 1..2 |->
        [FileInfoHeader(fi, <<>>) EXCEPT
            !.Name = IF i = 1 THEN <<"etc", "ssl", "certs", "ca-certificates.crt">>
                     ELSE <<"etc", "pki", "tls", "certs", "ca-certificates.crt">>,
            !.Uid = DefaultUid, !.Gid = DefaultGid]]

\* goExeTarball: the executable as /func/f
goExeTarball(info) ==
    <<[FileInfoHeader(info, <<>>) EXCEPT !.Name = <<"func", "f">>]>>

\* a layer writer starts on its tarball: the data layer on a project tree, the
\* certs layer and the executable's layer on a file of the build directory
DataStart(t) == [kind |-> "data", pc |-> "walk", tree |-> t, todo |-> t, out |-> <<>>, err |-> ""]
FileStart(k, u) ==
    [kind |-> k, pc |-> "write", tree |-> <<Entry(<<"f">>, "file", <<>>, u)>>,
     todo |-> <<>>, out |-> <<>>, err |-> ""]

TarInit ==
    /\ alive = [p \in Pids |-> TRUE]
    /\ job = [p \in Pids |-> IdleJob]
    /\ byHash = [h \in Hashes |-> NoDir]
    /\ pidLinks = [p \in Pids |-> NoLink]
    /\ last = NoLink
    /\ cache = [x \in BaseLayerIds |-> NoFile]
    /\ nbuilds = 0
    /\ nfaults = 0
    /\ toolenv = NoEnv
    /\ \E u \in HostUids :
          \/ \E k \in {"certs", "exe"} : tar = FileStart(k, u)
          \/ \E a \in {".func", ".git", ".gitignore", "a"}, ao \in NodeOpts, co \in LeafOpts,
                lo \in {o \in NodeOpts : o.kind \in {"none", "dir"}},
                d \in {".funcignore", "m.go"}, do \in NodeOpts, zo \in LeafOpts :
                tar = DataStart(Tree(a, ao, co, lo, d, do, zo, u))

\* filepath.Walk calls the function for the next entry
TarWalk ==
    /\ tar.kind = "data" /\ tar.pc = "walk" /\ tar.todo # <<>>
    /\ tar' = WalkFn(tar)
    /\ UNCHANGED <<alive, job, fsvars, nbuilds, nfaults, toolenv>>

\* writeDataLayer once newDataTarball has returned: its error is returned, or
\* the tarball is renamed to blobs/sha256/<digest>
TarData ==
    /\ tar.kind = "data" /\ tar.pc = "walk" /\ tar.todo = <<>>
    /\ tar' = [tar EXCEPT !.pc = IF tar.err # "" THEN "failed" ELSE "blob"]
    /\ UNCHANGED <<alive, job, fsvars, nbuilds, nfaults, toolenv>>

\* writeCertsLayer: newCertsTarball, then the rename into blobs
TarCerts ==
    /\ tar.kind = "certs" /\ tar.pc = "write"
    /\ tar' = [tar EXCEPT !.pc = "blob", !.out = newCertsTarball(tar.tree[1])]
    /\ UNCHANGED <<alive, job, fsvars, nbuilds, nfaults, toolenv>>

\* goBuilder.WritePlatform: goExeTarball, then the rename into blobs
TarExe ==
    /\ tar.kind = "exe" /\ tar.pc = "write"
    /\ tar' = [tar EXCEPT !.pc = "blob", !.out = goExeTarball(tar.tree[1])]
    /\ UNCHANGED <<alive, job, fsvars, nbuilds, nfaults, toolenv>>

TarNext == TarWalk \/ TarData \/ TarCerts \/ TarExe

\* the layer writers on every tree, each on its own
TarSpec == TarInit /\ [][TarNext]_vars

(***************************************************************************)
(* The environment of the Go toolchain.  An environment entry is the       *)
(* sequence of the pieces of its string, "NAME=value" with "=" a piece of  *)
(* its own; one string is a prefix of another when its pieces are.         *)
(***************************************************************************)
\* entries of the caller's environment in one behaviour
MaxEnviron == 2

\* the platforms a toolchain environment is made for
EnvPlatforms ==
    {PlatformList[i] : i \in 1..Len(PlatformList)} \cup
    {[OS |-> "linux", Architecture |-> "amd64", Variant |-> "v3"]}

\* the entries os.Environ() holds
EnvEntries ==
    { <<"PATH", "=", "/bin">>, <<"GOOS", "=", "plan9">>, <<"GOOS", "E", "=", "1">>,
      <<"GOARM", "=", "5">>, <<"GOARM", "64", "=", "v8.0">>, <<"CGO_ENABLED", "=", "1">> }

\* strings.HasPrefix
HasPrefix(s, prefix) == Len(s) >= Len(prefix) /\ SubSeq(s, 1, Len(prefix)) = prefix

\* strings.Split(v, "=")[0]: the string up to its first "="
RECURSIVE SplitFirst(_)
SplitFirst(v) ==
    IF v = <<>> \/ Head(v) = "=" THEN <<>> ELSE <<Head(v)>> \o SplitFirst(Tail(v))

\* strings.TrimPrefix(variant, "v")
TrimPrefixV(variant) ==
    CASE variant = "v7" -> "7" [] variant = "v6" -> "6" [] variant = "v3" -> "3" [] OTHER -> variant

\* goBuildEnvs: the pegged assignments of the platform
Pegged(p) ==
    << <<"CGO_ENABLED", "=", "0">>, <<"GOOS", "=", p.OS>>, <<"GOARCH", "=", p.Architecture>> >> \o
    (IF p.Variant # "" /\ p.Architecture = "arm" THEN << <<"GOARM", "=", TrimPrefixV(p.Variant)>> >>
     ELSE IF p.Variant # "" /\ p.Architecture = "amd64" THEN << <<"GOAMD64", "=", p.Variant>> >>
     ELSE <<>>)

\* goBuildEnvs: isPegged
isPegged(p, env) == \E i \in 1..Len(Pegged(p)) : HasPrefix(env, SplitFirst(Pegged(p)[i]))

\* goBuildEnvs, on the caller's environment
goBuildEnvs(p, environ) == Pegged(p) \o SelectSeq(environ, LAMBDA env : ~isPegged(p, env))

\* goBuild is about to make the environment of a platform's toolchain runs
EnvInit ==
    /\ alive = [p \in Pids |-> TRUE]
    /\ job = [p \in Pids |-> IdleJob]
    /\ byHash = [h \in Hashes |-> NoDir]
    /\ pidLinks = [p \in Pids |-> NoLink]
    /\ last = NoLink
    /\ cache = [x \in BaseLayerIds |-> NoFile]
    /\ nbuilds = 0
    /\ nfaults = 0
    /\ tar = NoTar
    /\ \E p \in EnvPlatforms, n \in 0..MaxEnviron :
          \E environ \in [1..n -> EnvEntries] :
             toolenv = [pc |-> "goBuild", platform |-> p, environ |-> environ, envs |-> <<>>]

\* goBuild: envs := goBuildEnvs(p)
GoBuildEnvs ==
    /\ toolenv.pc = "goBuild"
    /\ toolenv' = [toolenv EXCEPT !.pc = "envs", !.envs = goBuildEnvs(toolenv.platform, toolenv.environ)]
    /\ UNCHANGED <<alive, job, fsvars, nbuilds, nfaults, tar>>

EnvNext == GoBuildEnvs

EnvSpec == EnvInit /\ [][EnvNext]_vars

(***************************************************************************)
(* Properties.                                                             *)
(***************************************************************************)
\* the liveness of a fingerprint in the workspace's own terms: a by-pid link
\* named for a live process whose target, taken from the link's directory, is
\* the existing build directory of h
LiveLinkTo(h) ==
    \E q \in Pids :
        /\ alive[q] /\ pidLinks[q] # NoLink
        /\ byHash[h].present
        /\ Join(Dir(pidLink(q)), pidLinks[q]) = buildDir(h)

\* C1: a Build that finds, on entering setup, a by-pid link of a live process
\* that resolves to its own build directory returns BuildInProgress, and no
\* step of that Build (creating the job, the liveness check) changes by-hash,
\* by-pid, last or blob-cache.
C1_BuildInProgress ==
    [][\A p \in Pids :
          /\ (job[p].pc = "setup" /\ job'[p].pc \notin {"setup", "dead"} /\ LiveLinkTo(job[p].hash))
                => (job'[p].pc = "returned" /\ job'[p].res = "BuildInProgress" /\ UNCHANGED fsvars)
          /\ (~Running(p) /\ job'[p].pc = "setup") => UNCHANGED fsvars]_vars

C1_Witness ==
    \E p \in Pids : job[p].pc = "returned" /\ job[p].res = "BuildInProgress"

\* p is past setup and at work in its build directory
Building(p) == alive[p] /\ job[p].deferred /\ job[p].pc \notin CleanupPcs

\* C2: of two live processes building the same fingerprint on the same root at
\* most one gets past setup, whatever the interleaving of their setup steps.
C2_OneAttemptPerFingerprint ==
    \A p, q \in Pids :
        (p # q /\ Building(p) /\ Building(q)) => job[p].hash # job[q].hash

\* the step with which p's Build returns to its caller
Returns(p) == job'[p].pc = "returned" /\ job'[p] # job[p]

\* the last link as it was when p's Build was called
LastBefore(p) == IF Running(p) THEN job[p].lastAtStart ELSE last

\* C3: a Build that returns an error (a cancellation included), whichever step
\* failed, leaves builds/last as it was when Build was called.
C3_LastUnchangedOnFailure ==
    [][\A p \in Pids :
          (Returns(p) /\ job'[p].res # "ok") => last' = LastBefore(p)]_vars

\* C4: every file under by-hash/<h>/oci/blobs/sha256 is named by the sha256 of
\* the bytes it holds.
C4_BlobsNamedByContent ==
    \A h \in Hashes :
        byHash[h].present => \A f \in byHash[h].blobs : f.name = Sha256(BytesOf(f, cache))

\* a process is copying into blob-cache/<x>
Copying(x) ==
    \E p \in Pids : alive[p] /\ job[p].pc \in {"cache_copy"} /\ BaseId(p) = x

\* C5: a file present in blob-cache holds the complete bytes of its layer (a
\* download still in progress is not held against the claim).
C5_CacheEntriesComplete ==
    \A x \in BaseLayerIds :
        (cache[x].present /\ ~Copying(x)) => cache[x].got = AllChunks

\* a descriptor resolves in the tree d: the blob it names exists, with the
\* descriptor's size and digest
Resolves(desc, d) ==
    \E f \in d.blobs :
        /\ f.name = desc.digest
        /\ SizeOf(BytesOf(f, cache)) = desc.size
        /\ Sha256(BytesOf(f, cache)) = desc.digest

\* every descriptor reachable from index.json of the tree d resolves
LayoutResolves(d) ==
    /\ d.present /\ d.index.present
    /\ \A i \in 1..Len(d.index.manifests) :
          LET m == d.index.manifests[i] IN
          /\ Resolves(m, d)
          /\ \A f \in d.blobs :
                f.name = m.digest =>
                    /\ Resolves(f.doc.config, d)
                    /\ \A j \in 1..Len(f.doc.layers) : Resolves(f.doc.layers[j], d)

\* p's Build has succeeded and is in its deferred cleanup
Succeeded(p) == job[p].pc \in CleanupPcs /\ job[p].res = "ok"

\* C6: after a successful Build every descriptor reachable from index.json
\* names a blob of the build directory with that size and that sha256.
C6_DescriptorsResolve ==
    \A p \in Pids : Succeeded(p) => LayoutResolves(byHash[job[p].hash])

\* the object a layer descriptor names
LayerOf(desc) == desc.digest[2]

\* the layer order of a platform's image: base layers in base order, data,
\* certs, the plugin's shared layers (none for Go), the plugin's platform layer
ExpectedLayers(h, plat, tag) ==
    (IF \E n \in 0..MaxBuilds, v \in {"", "v1"} : tag = ConfigTag(TRUE, n, v) THEN BaseLayers ELSE <<>>) \o
    <<Obj("data", h, "", ""), Obj("certs", "", "", ""), Obj("exe", h, plat, "")>>

\* the manifest blob f of tree d lists the layers in order, and its config's
\* diffIDs are those layers' diffIDs position by position
ManifestInOrder(f, d) ==
    LET want == ExpectedLayers(f.bytes.of[2], f.bytes.of[3], f.bytes.of[4]) IN
    /\ Len(f.doc.layers) = Len(want)
    /\ \A i \in 1..Len(want) : LayerOf(f.doc.layers[i]) = want[i]
    /\ \E c \in d.blobs :
          /\ c.name = f.doc.config.digest
          /\ Len(c.doc.diffIDs) = Len(f.doc.layers)
          /\ \A i \in 1..Len(f.doc.layers) : c.doc.diffIDs[i] = DiffID(LayerOf(f.doc.layers[i]))

\* C7: in every platform's manifest of a successful build the layers are base,
\* data, certs, shared, platform in that order, and the config's rootfs.diffIDs
\* are the diffIDs of those layers in the same order.
C7_LayerOrder ==
    \A p \in Pids :
        Succeeded(p) =>
            LET d == byHash[job[p].hash] IN
            /\ d.present /\ d.index.present
            /\ \A i \in 1..Len(d.index.manifests) :
                  \E f \in d.blobs : f.name = d.index.manifests[i].digest /\ ManifestInOrder(f, d)

C7_Witness ==
    \E p \in Pids :
        /\ Succeeded(p)
        /\ Len(byHash[job[p].hash].index.manifests) = 2
        /\ \E f \in byHash[job[p].hash].blobs : Len(f.doc.layers) = Len(BaseLayers) + 3

\* p's Build is still at work: its result is not yet decided
AtWork(p) == Running(p) /\ job[p].pc \notin CleanupPcs

\* C8: once its context is cancelled, a Build at work writes nothing more to
\* the workspace and does not report success: its next I/O step aborts.
C8_NoSuccessAfterCancel ==
    [][\A p \in Pids :
          (AtWork(p) /\ job[p].cancelled /\ job'[p] # job[p])
              => (UNCHANGED fsvars /\ job'[p].res # "ok")]_vars

\* C9: when Build returns without error, builds/last is the relative link
\* by-hash/<fingerprint>, and it resolves to the build directory of that job.
C9_LastPointsAtBuild ==
    [][\A p \in Pids :
          (Returns(p) /\ job'[p].res = "ok") =>
              /\ last' = <<"by-hash", job[p].hash>>
              /\ byHash'[job[p].hash].present
              /\ Join(Dir(lastLink), last') = buildDir(job[p].hash)]_vars

C9_Witness ==
    \E p \in Pids : job[p].pc = "returned" /\ job[p].res = "ok" /\ last # NoLink

\* C10: the Build a process runs after its Build was cancelled in the Go compile
\* step does not fail on what the cancelled attempt left behind (its by-pid
\* link, its by-hash tree), and the cancelled Build left last unchanged.
C10_BuildAfterCancel ==
    [][\A p \in Pids :
          /\ (Returns(p) /\ job[p].prev = "Canceled")
                => job'[p].res \notin {"BuildInProgress", "LinkExists"}
          /\ (Returns(p) /\ job'[p].res = "Canceled") => last' = LastBefore(p)]_vars

\* the step with which p's Build is decided a success: updateLastLink returns nil
Succeeds(p) == job[p].pc = "last_ln" /\ job'[p].res = "ok"

\* the layer descriptors of kind k that the manifest blob named by m lists
LayersOfKind(d, m, k) ==
    {l \in UNION {{f.doc.layers[j] : j \in 1..Len(f.doc.layers)} : f \in {g \in d.blobs : g.name = m.digest}} :
        LayerOf(l)[1] = k}

\* C11: a successful build for n platforms leaves an index.json with exactly n
\* manifest descriptors, the i-th for the i-th requested platform, and one
\* data layer and one certs layer that every manifest references.
C11_IndexPerPlatform ==
    [][\A p \in Pids :
          Succeeds(p) =>
              LET d == byHash'[job[p].hash]
                  ms == d.index.manifests
                  all(k) == UNION {LayersOfKind(d, ms[i], k) : i \in 1..Len(ms)}
              IN  /\ d.present /\ d.index.present
                  /\ Len(ms) = job[p].nplat
                  /\ \A i \in 1..Len(ms) :
                        /\ ms[i].platform = PlatName(PlatformList[i])
                        /\ \E f \in d.blobs : f.name = ms[i].digest
                        /\ Cardinality(LayersOfKind(d, ms[i], "data")) = 1
                        /\ Cardinality(LayersOfKind(d, ms[i], "certs")) = 1
                  /\ Cardinality(all("data")) = 1 /\ Cardinality(all("certs")) = 1
                  /\ Cardinality({f \in d.blobs : f.bytes.of[1] = "data"}) = 1
                  /\ Cardinality({f \in d.blobs : f.bytes.of[1] = "certs"}) = 1]_vars

C11_Witness ==
    \E p \in Pids :
        /\ Succeeded(p)
        /\ Len(byHash[job[p].hash].index.manifests) >= 2
        /\ byHash[job[p].hash].index.manifests[1].platform # byHash[job[p].hash].index.manifests[2].platform

\* the names the data tarball leaves out
ExcludedNames == {".git", ".func", ".funcignore", ".gitignore"}

\* the entry is left out of the data tarball: it, or a directory above it, has
\* an excluded name
Excluded(e) == \E i \in 1..Len(e.path) : e.path[i] \in ExcludedNames

\* the place a relative link's target names, taken from the link's own directory
Resolved(e) == AbsJoin(Dir(ProjRoot \o e.path), e.target)

AbsoluteLink(e) == e.kind = "link" /\ Head(e.target) = "/"
EscapingLink(e) ==
    /\ e.kind = "link" /\ Head(e.target) # "/"
    /\ Resolved(e) # ProjRoot /\ ~Beneath(ProjRoot, Resolved(e))

\* the error the link policy has for the entry
LinkError(e) ==
    IF AbsoluteLink(e) THEN "AbsoluteLink" ELSE IF EscapingLink(e) THEN "LinkEscapesRoot" ELSE ""

\* writeDataLayer has returned
DataDone == tar.kind = "data" /\ tar.pc \in {"blob", "failed"}

\* the entry is in the tarball as a symlink with its own target string
ArchivedLink(e) ==
    \E i \in 1..Len(tar.out) :
        /\ tar.out[i].Name = <<"func">> \o e.path
        /\ tar.out[i].Typeflag = "link" /\ tar.out[i].Linkname = e.target

\* C12 as stated: a tree that contains an absolute or an escaping symlink
\* anywhere makes the data tarball fail with that link's error and leaves
\* nothing under blobs/sha256; otherwise the relative links are archived
\* with their own targets.
C12_AnyBadLinkFails ==
    DataDone =>
        LET bad == {i \in 1..Len(tar.tree) : LinkError(tar.tree[i]) # ""} IN
        IF bad # {}
        THEN tar.pc = "failed" /\ tar.err \in {LinkError(tar.tree[i]) : i \in bad}
        ELSE tar.pc = "blob"

\* C12: a tree that has, among the entries the data tarball takes, an absolute
\* or an escaping symlink makes the data tarball fail with the error of the
\* first such link in walk order and leaves nothing under blobs/sha256; with
\* no such link the tarball is written and every relative link among those
\* entries is archived with its own target string.
C12_LinkPolicy ==
    DataDone =>
        LET taken == {i \in 1..Len(tar.tree) : ~Excluded(tar.tree[i])}
            bad == {i \in taken : LinkError(tar.tree[i]) # ""}
        IN  IF bad # {}
            THEN /\ tar.pc = "failed"
                 /\ tar.err = LinkError(tar.tree[CHOOSE i \in bad : \A j \in bad : i <= j])
            ELSE /\ tar.pc = "blob" /\ tar.err = ""
                 /\ \A i \in taken : tar.tree[i].kind = "link" => ArchivedLink(tar.tree[i])

C12_Witness ==
    /\ tar.kind = "data" /\ tar.pc = "failed" /\ tar.err = "LinkEscapesRoot"
    /\ \E i \in 1..Len(tar.tree) : Excluded(tar.tree[i]) /\ AbsoluteLink(tar.tree[i])
    /\ \E i \in 1..Len(tar.out) : tar.out[i].Typeflag = "link"

\* C13: every entry of every tarball the builder writes (data, certs, the Go
\* executable's) has uid 1000 and gid 1000, whoever owns the file on the host.
C13_EntriesOwnedBy1000 ==
    \A i \in 1..Len(tar.out) : tar.out[i].Uid = 1000 /\ tar.out[i].Gid = 1000

\* the entries of the data tarball whose name is /func/<path>
ArchivedAt(path) == { i \in 1..Len(tar.out) : tar.out[i].Name = <<"func">> \o path }

\* C14: a data tarball that was written holds no entry named .git, .func,
\* .funcignore or .gitignore at any depth and none beneath a directory of such
\* a name; every other entry of the project tree is in it exactly once, as
\* /func/<relative path> and with its own type.
C14_IgnoredNeverArchived ==
    (tar.kind = "data" /\ tar.pc = "blob") =>
        /\ \A i \in 1..Len(tar.out) :
              \A j \in 1..Len(tar.out[i].Name) : tar.out[i].Name[j] \notin ExcludedNames
        /\ \A k \in 1..Len(tar.tree) :
              LET e == tar.tree[k]
              IN  /\ Excluded(e) => ArchivedAt(e.path) = {}
                  /\ ~Excluded(e) =>
                        /\ Cardinality(ArchivedAt(e.path)) = 1
                        /\ \A i \in ArchivedAt(e.path) : tar.out[i].Typeflag = e.kind

\* a data tarball was written for a tree with an entry beneath an ignored
\* directory, and a file, a directory and a symlink it takes
C14_Witness ==
    /\ tar.kind = "data" /\ tar.pc = "blob"
    /\ \E k \in 1..Len(tar.tree) :
          /\ tar.tree[k].kind = "dir" /\ BaseName(tar.tree[k]) \in ExcludedNames
          /\ \E m \in 1..Len(tar.tree) : Beneath(tar.tree[k].path, tar.tree[m].path)
    /\ \A kind \in {"file", "dir", "link"} :
          \E i \in 1..Len(tar.out) : tar.out[i].Typeflag = kind /\ Len(tar.out[i].Name) > 1

\* the config blobs the manifests of d's index name
ConfigsOf(d) ==
    { c \in d.blobs :
        \E i \in 1..Len(d.index.manifests) :
           \E f \in d.blobs : f.name = d.index.manifests[i].digest /\ f.doc.config.digest = c.name }

\* the entries of an env list that set the variable v
Setting(e, v) == { i \in 1..Len(e) : e[i] \in {v \o "=" \o x : x \in {"", "v1"} \cup {RFC3339(n) : n \in 0..MaxBuilds}} }

\* C15: when a build succeeds, the env list of every platform's config is the
\* base image's entries (when there is a base), FUNC_CREATED=<job start>,
\* FUNC_VERSION=<value>, the function's envs in their order, then
\* LISTEN_ADDRESS=[::]:8080; FUNC_CREATED and FUNC_VERSION are there once each
\* and have the same value in all the configs of the build.
C15_ConfigEnvOrder ==
    [][\A p \in Pids : Succeeds(p) =>
          LET h == job[p].hash
              cs == ConfigsOf(byHash[h])
              nb == IF job[p].base THEN Len(BaseEnv) ELSE 0
              nf == Len(FunctionEnvs(h))
          IN  /\ cs # {}
              /\ \A c \in cs :
                    LET e == c.doc.env IN
                    /\ Len(e) = nb + 2 + nf + 1
                    /\ job[p].base => SubSeq(e, 1, nb) = BaseEnv
                    /\ e[nb + 1] = "FUNC_CREATED=" \o RFC3339(job[p].start)
                    /\ Setting(e, "FUNC_VERSION") = {nb + 2}
                    /\ Setting(e, "FUNC_CREATED") = {nb + 1}
                    /\ SubSeq(e, nb + 3, nb + 2 + nf) = FunctionEnvs(h)
                    /\ e[Len(e)] = "LISTEN_ADDRESS=[::]:8080"
              /\ \A c1, c2 \in cs :
                    /\ c1.doc.env[nb + 1] = c2.doc.env[nb + 1]
                    /\ c1.doc.env[nb + 2] = c2.doc.env[nb + 2]]_vars

\* p's step is the start of a Build call
Calls(p) == job[p].pc \in {"idle", "returned"} /\ job'[p] # job[p] /\ job'[p].pc # "dead"

\* C16: Build called for a runtime that has no builder returns the
\* unsupported-runtime error at once, before setup, and leaves the workspace
\* (by-hash directories, by-pid links, the last link, the blob cache) as it was.
C16_UnsupportedRuntime ==
    [][\A p \in Pids :
          (Calls(p) /\ job'[p].runtime \notin builders) =>
              /\ job'[p].pc = "returned"
              /\ job'[p].res = "UnsupportedRuntime"
              /\ UNCHANGED fsvars]_vars

\* a build for an unsupported runtime has returned on a workspace an earlier
\* build left its directory and the last link in
C16_Witness ==
    \E p \in Pids :
        /\ job[p].pc = "returned" /\ job[p].res = "UnsupportedRuntime"
        /\ job[p].runtime \notin builders
        /\ last # NoLink
        /\ \E h \in Hashes : byHash[h].present

\* p's step is a failed `go mod tidy` or `go build`
ToolchainFails(p) ==
    /\ job[p].pc \in {"tidy", "gobuild"}
    /\ job'[p].pc \notin {job[p].pc, "gobuild", "exe", "dead"}

\* the manifests in d of the platform pl
ManifestsFor(d, pl) == { f \in d.blobs : f.bytes.of[1] = "manifest" /\ f.bytes.of[3] = pl }

Has(e, x) == \E i \in 1..Len(e) : e[i] = x

\* C17: the step that makes a platform's config never fails for git describe:
\* when the command fails (the project has no tag, the context is cancelled)
\* the config has FUNC_VERSION= and the build goes on to the manifest; a failed
\* go mod tidy or go build ends the build with an error, with no manifest of
\* that platform and no index.json in the build directory, then and when Build
\* returns.
C17_GitRecoveredToolchainFatal ==
    [][\A p \in Pids :
          LET h == job[p].hash IN
          /\ (job[p].pc = "config" /\ job'[p].pc \notin {"config", "dead"}) =>
                /\ job'[p].pc = "manifest"
                /\ \E c \in byHash'[h].blobs :
                      /\ c.name = job'[p].config.digest
                      /\ Has(c.doc.env, "FUNC_VERSION=") \/ Has(c.doc.env, "FUNC_VERSION=" \o GitTag(h))
                      /\ (GitTag(h) = "" \/ CtxDone(p)) => Has(c.doc.env, "FUNC_VERSION=")
          /\ ToolchainFails(p) =>
                /\ job'[p].pc = "cleanup_pids"
                /\ job'[p].res \in {"ToolchainFailed", "Canceled"}
                /\ byHash'[h].present =>
                      /\ ~byHash'[h].index.present
                      /\ ManifestsFor(byHash'[h], PlatName(Platform(p))) = {}
          /\ (Returns(p) /\ job'[p].res \in {"ToolchainFailed", "Canceled"} /\ byHash'[h].present) =>
                ~byHash'[h].index.present]_vars

\* a build whose git describe failed has succeeded with FUNC_VERSION= in its
\* config, and a build whose toolchain failed for its second platform has
\* returned the error, the first platform's manifest written
C17_Witness ==
    /\ \E h \in Hashes :
          /\ byHash[h].present /\ byHash[h].index.present
          /\ IsLinkToIn(lastLink, buildDir(h), byHash, pidLinks, last)
          /\ \E c \in ConfigsOf(byHash[h]) : Has(c.doc.env, "FUNC_VERSION=")
    /\ \E p \in Pids, h \in Hashes :
          /\ job[p].pc = "returned" /\ job[p].res = "ToolchainFailed"
          /\ byHash[h].present /\ ~byHash[h].index.present
          /\ ManifestsFor(byHash[h], PlatName(PlatformList[1])) # {}
          /\ ManifestsFor(byHash[h], PlatName(PlatformList[2])) = {}

\* p's step is the end of its cleanup pass
CleanupEnds(p) == job[p].pc \in CleanupPcs /\ job'[p].pc = "returned"

\* C18: when the cleanup pass of a build ends, every directory left under
\* builds/by-hash is what the last link resolves to or what the by-pid link of
\* a live process resolves to: the stale directories are gone.
C18_CleanupLeavesNoStaleDir ==
    [][\A p \in Pids : CleanupEnds(p) =>
          \A h \in Hashes : byHash'[h].present =>
              \/ IsLinkToIn(lastLink, buildDir(h), byHash', pidLinks', last')
              \/ IsActiveIn(h, byHash', pidLinks', last')]_vars

\* C19: a Build call that fails, at whichever step, returns from the end of its
\* cleanup pass: the pass has run before the caller has the error.
C19_CleanupBeforeFailedReturn ==
    [][\A p \in Pids :
          (Returns(p) /\ job'[p].res # "ok") => CleanupEnds(p)]_vars

\* p's step is a step of its cleanup pass
CleanupStep(p) == job[p].pc \in CleanupPcs /\ job'[p] # job[p] /\ job'[p].pc # "dead"

\* C20: whatever the interleaving, a step of a cleanup pass removes no by-pid
\* entry of a live process, not the directory the last link resolves to, and no
\* by-hash directory the by-pid link of a live process resolves to.
C20_CleanupRemovesOnlyStale ==
    [][\A p \in Pids : CleanupStep(p) =>
          /\ \A q \in Pids : (alive[q] /\ pidLinks[q] # NoLink) => pidLinks'[q] = pidLinks[q]
          /\ \A h \in Hashes : (byHash[h].present /\ ~byHash'[h].present) =>
                /\ ~isLinkTo(lastLink, buildDir(h))
                /\ ~isActive(h)]_vars

\* p's step is the os.Symlink of updateLastLink, no I/O fault striking
LinksLast(p) ==
    /\ job[p].pc = "last_ln" /\ job'[p].pc \notin {"last_ln", "dead"}
    /\ nfaults' = nfaults

\* C21: the update of builds/last is atomic: once the link exists no step
\* leaves the workspace without it, and the update of every build that reaches
\* it succeeds, also when two builds reach it together.
C21_LastUpdateAtomic ==
    [][/\ last # NoLink => last' # NoLink
       /\ \A p \in Pids : LinksLast(p) => (job'[p].res = "ok" /\ last' = LastTarget(job[p].hash))]_vars

\* the positions of setup before its by-pid link is made
BeforeLink == {"setup", "setup_rm", "setup_mkdir", "setup_link"}

\* the positions of scaffold and containerize
Writing == {"scaffold", "oci_layout", "data", "certs", "tidy", "gobuild", "exe", "pull",
            "cache_stat", "cache_create", "cache_copy", "link", "config", "manifest", "index"}

\* by-pid/<p> is a symlink ../by-hash/<h> that resolves to the build directory
\* of h, in the workspace of dirs and links
OwnLinkTo(p, h, dirs, links, lst) ==
    /\ links[p] = <<"..", "by-hash", h>>
    /\ IsLinkToIn(pidLink(p), buildDir(h), dirs, links, lst)

\* C22: once setup has made by-pid/<pid>, and as long as the process lives, the
\* link is there with the target ../by-hash/<fingerprint> and resolves to the
\* job's build directory; Build never removes it, and scaffold and containerize
\* write into the build directory only when it is there.
C22_OwnLinkHeld ==
    [][\A p \in Pids :
          /\ (alive'[p] /\ pidLinks[p] # NoLink) => pidLinks'[p] = pidLinks[p]
          /\ (alive'[p] /\ pidLinks'[p] # NoLink) =>
                \E h \in Hashes :
                   /\ OwnLinkTo(p, h, byHash', pidLinks', last')
                   /\ (Running(p)' /\ job'[p].pc \notin BeforeLink) => h = job'[p].hash
          /\ (alive'[p] /\ job[p].pc \in Writing /\ job'[p] # job[p]
                /\ byHash'[job[p].hash] # byHash[job[p].hash]) => pidLinks[p] # NoLink]_vars

\* C23: a second cleanup pass on a workspace no build is working in, nothing
\* having changed since the first pass, removes nothing: the by-pid entries, the
\* by-hash directories and the last link are what they were before it.
C23_CleanupIdempotent ==
    [][\A p \in Pids :
          (job[p].pc = "clean_again" /\ job'[p].pc = "returned") => UNCHANGED fsvars]_vars

\* the second pass has run for a job whose own directory is gone, so that its
\* passes remove what last does not link to: the directory last links to is
\* left, and a dead process has no by-pid entry
C23_Witness ==
    \E p \in Pids :
        /\ job[p].pc = "returned" /\ job[p].res = "error" /\ nbuilds = 0
        /\ \E h \in Hashes : pidLinks[p] = <<"..", "by-hash", h>> /\ ~byHash[h].present
        /\ \E h \in Hashes : byHash[h].present /\ isLinkTo(lastLink, buildDir(h))
        /\ \E q \in Pids : ~alive[q] /\ pidLinks[q] = NoLink

\* the variable names the platform's pegged assignments set
PeggedNames(p) == { SplitFirst(Pegged(p)[i]) : i \in 1..Len(Pegged(p)) }

\* C24: the toolchain's environment is the pegged assignments followed by the
\* entries of the caller's environment whose variable name is not a pegged
\* name, in the caller's order; each pegged name is set exactly once and an
\* entry of another name is never dropped.
C24_EnvMinusPegged ==
    toolenv.pc = "envs" =>
        LET p == toolenv.platform
            kept == SelectSeq(toolenv.environ, LAMBDA env : SplitFirst(env) \notin PeggedNames(p))
        IN  /\ toolenv.envs = Pegged(p) \o kept
            /\ \A n \in PeggedNames(p) :
                  Cardinality({ i \in 1..Len(toolenv.envs) : SplitFirst(toolenv.envs[i]) = n }) = 1

\* the tree d holds oci-layout, index.json and every blob the index refers to
LayoutComplete(d) ==
    /\ d.present /\ d.layout /\ d.index.present
    /\ \A i \in 1..Len(d.index.manifests) :
          \E f \in d.blobs :
             /\ f.name = d.index.manifests[i].digest
             /\ \E c \in d.blobs : c.name = f.doc.config.digest
             /\ \A j \in 1..Len(f.doc.layers) : \E l \in d.blobs : l.name = f.doc.layers[j].digest

\* C25: whenever builds/last exists and no build is in progress it resolves to
\* a build directory with the complete layout of a successful build, also after
\* a failed or cancelled rebuild of the fingerprint last links to.
C25_LastIsComplete ==
    ((\A p \in Pids : ~Running(p)) /\ last # NoLink) =>
        \E h \in Hashes : isLinkTo(lastLink, buildDir(h)) /\ LayoutComplete(byHash[h])

\* p's step is a step of setup in a process that holds a by-pid link: the link
\* of the Build that completed setup in it before
SetupAgain(p) ==
    /\ job[p].pc \in BeforeLink /\ pidLinks[p] # NoLink
    /\ job'[p] # job[p] /\ job'[p].pc # "dead"

\* C26: a Build in a process that completed setup before fails in setup, with
\* BuildInProgress when the fingerprint is the one of its by-pid link and with
\* the symlink error when it is another; it runs no cleanup pass and leaves the
\* last link as it was.
C26_LaterBuildFailsInSetup ==
    [][\A p \in Pids : SetupAgain(p) =>
          /\ job'[p].pc \in BeforeLink \cup {"returned"}
          /\ UNCHANGED last
          /\ (Returns(p) /\ nfaults' = nfaults) =>
                job'[p].res = IF pidLinks[p] = <<"..", "by-hash", job[p].hash>>
                              THEN "BuildInProgress" ELSE "LinkExists"]_vars

\* C26, amended: a Build in a process that completed setup before fails in
\* setup, with BuildInProgress when the by-pid link of a live process, its own
\* or another's, resolves to the build directory of the fingerprint, and with
\* the symlink error otherwise; it runs no cleanup pass and leaves the last link
\* as it was.
C26_LaterBuildFailsByHolder ==
    [][\A p \in Pids : SetupAgain(p) =>
          /\ job'[p].pc \in BeforeLink \cup {"returned"}
          /\ UNCHANGED last
          /\ (Returns(p) /\ nfaults' = nfaults) =>
                job'[p].res = IF isActive(job[p].hash) THEN "BuildInProgress" ELSE "LinkExists"]_vars

\* a later Build of a process has failed on its own by-pid link, which is
\* there and resolves to the directory of its earlier Build, with the last link
\* of that Build in place
C26_Witness ==
    \E p \in Pids, h \in Hashes :
        /\ job[p].pc = "returned" /\ job[p].res = "LinkExists"
        /\ alive[p] /\ OwnLinkTo(p, h, byHash, pidLinks, last)
        /\ isLinkTo(lastLink, buildDir(h))

====
